---- MODULE Spec2Model ----
(***************************************************************************)
(* Character JSON validator: the recursive JSON tree viewer                *)
(* (components/JsonViewer.tsx), the character schema with its error        *)
(* formatting (lib/schema.ts), the file-upload App (lib/schema.ts, second  *)
(* half) and the sample-loading App (App.tsx).                             *)
(***************************************************************************)
EXTENDS Integers, Sequences, FiniteSets, TLC

VARIABLES
    \* ---- JsonViewer / JsonNode (components/JsonViewer.tsx)
    data,             \* the `data` prop of JsonViewer
    initialExpanded,  \* the `initialExpanded` prop of JsonViewer
    view,             \* "unmounted" | "mounted" | "crashed" (render threw)
    nodes,            \* mounted JsonNode instances: path -> isExpanded
    \* ---- characterSchema / formatZodError (lib/schema.ts)
    parsed,           \* outcome of characterSchema.parse(sampleJson), NULL before
    formatted,        \* formatZodError of the thrown ZodError, NULL before
    \* ---- App (App.tsx)
    sampleJson,       \* the bundled sample document
    effect,           \* the mount effect: "scheduled" | "done"
    jsonData, validatedData, sampleErrors, sampleIsLoading,
    \* ---- App (lib/schema.ts, lines 65-258): the file-upload validator
    file, character, errors, isLoading,
    pending           \* validateFile calls suspended at `await file.text()`

treeVars == <<data, initialExpanded, view, nodes>>

schemaVars == <<parsed, formatted>>

sampleVars == <<sampleJson, effect, jsonData, validatedData, sampleErrors, sampleIsLoading>>

uploadVars == <<file, character, errors, isLoading, pending>>

vars == <<treeVars, schemaVars, sampleVars, uploadVars>>

\* a state that holds null
NULL == [t |-> "NULL"]

\* a state that holds an array of errors
ErrorList(list) == [list |-> list]

(***************************************************************************)
(* JSON values.  A value is a record tagged with its JSON kind in field t; *)
(* an object keeps its properties as a sequence of [k, v] pairs in         *)
(* insertion order, with no key twice.                                     *)
(***************************************************************************)
JNull == [t |-> "null"]
JStr(s) == [t |-> "string", v |-> s]
JNum(n) == [t |-> "number", v |-> n]
JBool(b) == [t |-> "boolean", v |-> b]
JArr(items) == [t |-> "array", v |-> items]
JObj(props) == [t |-> "object", v |-> props]

Prop(key, value) == [k |-> key, v |-> value]

Range(s) == {s[i] : i \in 1..Len(s)}

\* Object.keys(value) of an object, in insertion order
ObjectKeys(value) == [i \in 1..Len(value.v) |-> value.v[i].k]

HasKey(value, key) == \E i \in 1..Len(value.v) : value.v[i].k = key

\* value[key] of an object that has the key
Get(value, key) == (CHOOSE p \in Range(value.v) : p.k = key).v

(***************************************************************************)
(* JsonNode                                                                *)
(***************************************************************************)

\* const type = Array.isArray(value) ? "array" : typeof value;
\* typeof null is "object" in JavaScript.
NodeType(value) ==
    IF value.t = "array" THEN "array"
    ELSE IF value.t \in {"object", "null"} THEN "object"
    ELSE value.t

\* a node that starts expanded whatever it is given: useState(true)
InitialIsExpandedAlways(initialExpandedProp, isRoot) == TRUE

\* useState(initialExpanded || isRoot)
InitialIsExpanded(initialExpandedProp, isRoot) == initialExpandedProp \/ isRoot

\* the early return for primitives is skipped: the node gets the clickable
\* header with the expand/collapse indicator
HasExpandControl(value) == ~(NodeType(value) # "object" /\ NodeType(value) # "array")

\* the keys of the child JsonNode elements an expanded node renders:
\* `${index}` for array items, the property key for object properties
ChildKeys(value) ==
    IF NodeType(value) = "array"
    THEN {ToString(i - 1) : i \in 1..Len(value.v)}
    ELSE IF value.t = "object" THEN Range(ObjectKeys(value))
    ELSE {}

ChildValue(value, key) ==
    IF NodeType(value) = "array"
    THEN value.v[CHOOSE i \in 1..Len(value.v) : ToString(i - 1) = key]
    ELSE Get(value, key)

\* Object.entries(null) throws a TypeError
EntriesThrow(value) == NodeType(value) = "object" /\ value.t = "null"

RootPath == << >>

RECURSIVE ValueAt(_, _)
ValueAt(value, path) ==
    IF path = << >> THEN value
    ELSE ValueAt(ChildValue(value, Head(path)), Tail(path))

\* the isExpanded state a JsonNode at path has in this render: its kept state
\* when it was mounted before, its useState initial value when it is new.
\* Only the root receives initialExpanded and isRoot; children get the defaults.
IsExpandedAt(path, states, flag) ==
    IF path \in DOMAIN states THEN states[path]
    ELSE IF path = RootPath THEN InitialIsExpanded(flag, TRUE)
    ELSE InitialIsExpanded(FALSE, FALSE)

\* the JsonNode instances one render mounts under (and including) path
RECURSIVE Rendered(_, _, _, _)
Rendered(path, value, states, flag) ==
    {path} \cup
    IF HasExpandControl(value) /\ IsExpandedAt(path, states, flag)
    THEN UNION {Rendered(Append(path, key), ChildValue(value, key), states, flag) :
                    key \in ChildKeys(value)}
    ELSE {}

\* whether the render of the subtree at path throws
RECURSIVE RenderThrows(_, _, _, _)
RenderThrows(path, value, states, flag) ==
    /\ HasExpandControl(value)
    /\ IsExpandedAt(path, states, flag)
    /\ \/ EntriesThrow(value)
       \/ \E key \in ChildKeys(value) :
              RenderThrows(Append(path, key), ChildValue(value, key), states, flag)

EmptyNodes == [p \in {} |-> FALSE]

\* React reconciliation of the JsonNode tree: instances that are rendered again
\* keep their state, new ones start from useState's initial value, and the ones
\* no longer rendered are unmounted and their state is dropped.
Reconcile(value, states, flag) ==
    [p \in Rendered(RootPath, value, states, flag) |-> IsExpandedAt(p, states, flag)]

\* onClick={() => setIsExpanded(!isExpanded)} on the node at path, followed by
\* the re-render
ToggleResult(value, states, flag, path) ==
    Reconcile(value, [states EXCEPT ![path] = ~@], flag)

ToggleThrows(value, states, flag, path) ==
    RenderThrows(RootPath, value, [states EXCEPT ![path] = ~@], flag)

\* the header with the onClick handler exists for this mounted node
CanToggle(path) ==
    /\ view = "mounted"
    /\ path \in DOMAIN nodes
    /\ HasExpandControl(ValueAt(data, path))

(***************************************************************************)
(* Inputs of the tree viewer                                               *)
(***************************************************************************)
MaxDepth == 2

Leaves == {JNull, JStr("s"), JNum(1), JBool(TRUE)}

SmallSiblings == Leaves \cup {JArr(<<JStr("s")>>), JObj(<<Prop("k", JNull)>>)}

RECURSIVE JsonValues(_)
JsonValues(depth) ==
    IF depth = 0 THEN Leaves
    ELSE LET inner == JsonValues(depth - 1) IN
         Leaves \cup {JArr(<< >>), JObj(<< >>)}
         \cup {JArr(<<x>>) : x \in inner}
         \cup {JObj(<<Prop("a", x)>>) : x \in inner}
         \cup {JArr(<<x, y>>) : x \in inner, y \in SmallSiblings}
         \cup {JObj(<<Prop("a", x), Prop("b", y)>>) : x \in inner, y \in SmallSiblings}

TreeInputs == JsonValues(MaxDepth)

(***************************************************************************)
(* Tree viewer: state machine                                              *)
(***************************************************************************)
IdleTree ==
    /\ data = JNull
    /\ initialExpanded = FALSE
    /\ view = "unmounted"
    /\ nodes = EmptyNodes

IdleSchema ==
    /\ parsed = NULL
    /\ formatted = NULL

\* the useState initial values of App (lib/schema.ts)
InitUploadState ==
    /\ file = NULL
    /\ character = NULL
    /\ errors = NULL
    /\ isLoading = FALSE
    /\ pending = << >>

\* App (App.tsx) before its mount effect has run
InitSample ==
    /\ effect = "scheduled"
    /\ jsonData = NULL
    /\ validatedData = NULL
    /\ sampleErrors = NULL
    /\ sampleIsLoading = TRUE

InitTree ==
    /\ data \in TreeInputs
    /\ initialExpanded \in BOOLEAN
    /\ view = "unmounted"
    /\ nodes = EmptyNodes
    /\ IdleSchema
    /\ sampleJson = JNull
    /\ InitSample
    /\ InitUploadState

\* first render of <JsonViewer data initialExpanded/>
JsonViewer ==
    /\ view = "unmounted"
    /\ IF RenderThrows(RootPath, data, EmptyNodes, initialExpanded)
       THEN /\ view' = "crashed"
            /\ nodes' = EmptyNodes
       ELSE /\ view' = "mounted"
            /\ nodes' = Reconcile(data, EmptyNodes, initialExpanded)
    /\ UNCHANGED <<data, initialExpanded, schemaVars, sampleVars, uploadVars>>

\* a click on the header of the node at path
Toggle(path) ==
    /\ CanToggle(path)
    /\ IF ToggleThrows(data, nodes, initialExpanded, path)
       THEN /\ view' = "crashed"
            /\ nodes' = EmptyNodes
       ELSE /\ view' = "mounted"
            /\ nodes' = ToggleResult(data, nodes, initialExpanded, path)
    /\ UNCHANGED <<data, initialExpanded, schemaVars, sampleVars, uploadVars>>

ToggleSome == \E path \in DOMAIN nodes : Toggle(path)

NextTree == JsonViewer \/ ToggleSome

SpecTree == InitTree /\ [][NextTree]_vars

(***************************************************************************)
(* Schema validation (the zod rules characterSchema is built from)         *)
(***************************************************************************)
Undefined == [t |-> "undefined"]

\* data[key]: undefined when the object has no such key
Lookup(value, key) == IF HasKey(value, key) THEN Get(value, key) ELSE Undefined

\* an issue path element: an object key or an array index
PKey(key) == [key |-> key]
PIdx(index) == [idx |-> index]

RECURSIVE Concat(_)
Concat(seqs) == IF seqs = << >> THEN << >> ELSE Head(seqs) \o Concat(Tail(seqs))

ZString == [s |-> "string"]
ZArray(element, minLength) == [s |-> "array", element |-> element, min |-> minLength]
ZObject(shape, unknownKeys) == [s |-> "object", shape |-> shape, unknownKeys |-> unknownKeys]
ZRecord(valueType) == [s |-> "record", valueType |-> valueType]
ZOptional(inner) == [s |-> "optional", inner |-> inner]
Field(key, schema) == [k |-> key, schema |-> schema]

InvalidType(expected, value, path) ==
    [code |-> "invalid_type",
     path |-> path,
     message |-> IF value.t = "undefined" THEN "Required"
                 ELSE "Expected " \o expected \o ", received " \o value.t]

TooSmall(minimum, path) ==
    [code |-> "too_small",
     path |-> path,
     message |-> "Array must contain at least " \o ToString(minimum) \o " element(s)"]

Failed(issues) == [issues |-> issues, out |-> Undefined]
Passed(value) == [issues |-> << >>, out |-> value]

\* an object parser that gives up at the first key that fails
FirstFailureOnly(results) ==
    IF \E i \in 1..Len(results) : results[i].issues # << >>
    THEN results[CHOOSE i \in 1..Len(results) :
                    /\ results[i].issues # << >>
                    /\ \A j \in 1..(i - 1) : results[j].issues = << >>].issues
    ELSE << >>

\* the issues of an object or array are those of all its members, in order
CollectIssues(results) == Concat([i \in 1..Len(results) |-> results[i].issues])

\* a parser that drops the keys its shape does not name, whatever unknownKeys says
StripUnknown(schema, value) == << >>

\* the keys of the data that the shape does not name, kept under passthrough
ExtraProps(schema, value) ==
    IF schema.unknownKeys = "passthrough"
    THEN SelectSeq(value.v,
                   LAMBDA p : ~\E i \in 1..Len(schema.shape) : schema.shape[i].k = p.k)
    ELSE << >>

\* schema._parse(value) at path: the issues found, in the order zod adds them,
\* and the parsed output
RECURSIVE ZParse(_, _, _)
ZParse(schema, value, path) ==
    CASE schema.s = "string" ->
           IF value.t = "string" THEN Passed(value)
           ELSE Failed(<<InvalidType("string", value, path)>>)
      [] schema.s = "optional" ->
           IF value.t = "undefined" THEN Passed(Undefined)
           ELSE ZParse(schema.inner, value, path)
      [] schema.s = "array" ->
           IF value.t # "array" THEN Failed(<<InvalidType("array", value, path)>>)
           ELSE LET small == IF Len(value.v) < schema.min
                             THEN <<TooSmall(schema.min, path)>> ELSE << >>
                    items == [i \in 1..Len(value.v) |->
                                ZParse(schema.element, value.v[i], Append(path, PIdx(i - 1)))]
                IN [issues |-> small \o CollectIssues(items),
                    out |-> JArr([i \in 1..Len(items) |-> items[i].out])]
      [] schema.s = "record" ->
           IF value.t # "object" THEN Failed(<<InvalidType("object", value, path)>>)
           ELSE LET items == [i \in 1..Len(value.v) |->
                                ZParse(schema.valueType, value.v[i].v,
                                       Append(path, PKey(value.v[i].k)))]
                IN [issues |-> CollectIssues(items),
                    out |-> JObj([i \in 1..Len(items) |-> Prop(value.v[i].k, items[i].out)])]
      [] schema.s = "object" ->
           IF value.t # "object" THEN Failed(<<InvalidType("object", value, path)>>)
           ELSE LET shape == schema.shape
                    items == [i \in 1..Len(shape) |->
                                ZParse(shape[i].schema, Lookup(value, shape[i].k),
                                       Append(path, PKey(shape[i].k)))]
                    set == SelectSeq([i \in 1..Len(shape) |-> i],
                                     LAMBDA i : \/ items[i].out # Undefined
                                                \/ HasKey(value, shape[i].k))
                IN [issues |-> CollectIssues(items),
                    out |-> JObj([j \in 1..Len(set) |-> Prop(shape[set[j]].k, items[set[j]].out)]
                                 \o ExtraProps(schema, value))]

\* z.array(z.string())
StringList == ZArray(ZString, 0)

\* a list rule written without its .min(1)
ListWithoutMinimum == ZArray(ZString, 0)

\* z.array(z.string()).min(1)
NonEmptyStringList == ZArray(ZString, 1)

characterSchema ==
    ZObject(<<
        Field("name", ZString),
        Field("plugins", ZOptional(StringList)),
        Field("clients", NonEmptyStringList),
        Field("modelProvider", ZString),
        Field("settings", ZOptional(ZObject(<<
            Field("secrets", ZOptional(ZRecord(ZString))),
            Field("voice", ZOptional(ZObject(<<Field("model", ZString)>>, "strip")))
          >>, "passthrough"))),
        Field("system", ZOptional(ZString)),
        Field("bio", NonEmptyStringList),
        Field("lore", NonEmptyStringList),
        Field("messageExamples",
              ZArray(ZArray(ZObject(<<
                  Field("user", ZString),
                  Field("content", ZObject(<<
                      Field("text", ZString),
                      Field("action", ZOptional(ZString))
                    >>, "strip"))
                >>, "strip"), 1), 1)),
        Field("postExamples", NonEmptyStringList),
        Field("adjectives", NonEmptyStringList),
        Field("topics", NonEmptyStringList),
        Field("knowledge", ZOptional(StringList)),
        Field("style", ZObject(<<
            Field("all", NonEmptyStringList),
            Field("chat", NonEmptyStringList),
            Field("post", NonEmptyStringList)
          >>, "strip"))
    >>, "strip")

\* characterSchema.parse(json): the validated data, or a ZodError carrying the
\* issues
SchemaParse(json) ==
    LET r == ZParse(characterSchema, json, << >>)
    IN IF r.issues = << >> THEN [ok |-> TRUE, data |-> r.out, issues |-> << >>]
       ELSE [ok |-> FALSE, data |-> Undefined, issues |-> r.issues]

PathElement(e) == IF "idx" \in DOMAIN e THEN ToString(e.idx) ELSE e.key

\* err.path.join(".")
RECURSIVE JoinPath(_)
JoinPath(path) ==
    IF path = << >> THEN ""
    ELSE IF Len(path) = 1 THEN PathElement(path[1])
    ELSE PathElement(path[1]) \o "." \o JoinPath(Tail(path))

\* error.errors.map(...)
formatZodError(issues) ==
    [i \in 1..Len(issues) |->
        [path |-> JoinPath(issues[i].path),
         message |-> issues[i].message,
         code |-> issues[i].code]]

(***************************************************************************)
(* App (App.tsx): validation of the bundled sample on mount                *)
(***************************************************************************)

\* validateCharacterConfig(json): returns the validated data or throws the
\* ZodError; the rules are those of the character schema
validateCharacterConfig(json) == SchemaParse(json)

\* messages.join(" - ")
RECURSIVE JoinMessages(_)
JoinMessages(messages) ==
    IF Len(messages) = 1 THEN messages[1]
    ELSE messages[1] \o " - " \o JoinMessages(Tail(messages))

\* validationError.errors.reduce(...): the messages of the issues under their
\* joined path, the paths in the order they first occur
RECURSIVE GroupByPath(_, _)
GroupByPath(acc, issues) ==
    IF issues = << >> THEN acc
    ELSE LET path == JoinPath(Head(issues).path)
             known == \E i \in 1..Len(acc) : acc[i].path = path
         IN GroupByPath(
               IF known
               THEN [i \in 1..Len(acc) |->
                       IF acc[i].path = path
                       THEN [acc[i] EXCEPT !.messages = Append(@, Head(issues).message)]
                       ELSE acc[i]]
               ELSE Append(acc, [path |-> path, messages |-> <<Head(issues).message>>]),
               Tail(issues))

\* Object.entries(groupedErrors).map(...)
formattedErrors(issues) ==
    LET groupedErrors == GroupByPath(<< >>, issues)
    IN [i \in 1..Len(groupedErrors) |->
          [path |-> groupedErrors[i].path,
           message |-> JoinMessages(groupedErrors[i].messages),
           code |-> "validation_error"]]

(***************************************************************************)
(* Inputs of the validator: the valid reference document with up to        *)
(* MaxEdits of its fields replaced, removed or added                       *)
(***************************************************************************)
MaxEdits == 2

Strs(s) == JArr(<<JStr(s)>>)

Turn == JObj(<<Prop("user", JStr("a")),
               Prop("content", JObj(<<Prop("text", JStr("hey"))>>))>>)

TurnWithAction ==
    JObj(<<Prop("user", JStr("a")),
           Prop("content", JObj(<<Prop("text", JStr("hey")), Prop("action", JStr("NONE"))>>))>>)

TurnWithUnknownKey ==
    JObj(<<Prop("user", JStr("a")),
           Prop("content", JObj(<<Prop("text", JStr("hey"))>>)),
           Prop("mood", JStr("calm"))>>)

TurnWithUnknownContentKey ==
    JObj(<<Prop("user", JStr("a")),
           Prop("content", JObj(<<Prop("text", JStr("hey")), Prop("lang", JStr("en"))>>))>>)

TurnWithoutContent == JObj(<<Prop("user", JStr("a"))>>)

TurnIllTyped ==
    JObj(<<Prop("user", JNum(1)), Prop("content", JObj(<<Prop("text", JNull)>>))>>)

Style(all, chat, post) ==
    JObj(SelectSeq(<<Prop("all", all), Prop("chat", chat), Prop("post", post)>>,
                   LAMBDA p : p.v # Undefined))

BaseCharacter ==
    JObj(<<Prop("name", JStr("Bot")),
           Prop("clients", Strs("discord")),
           Prop("modelProvider", JStr("openai")),
           Prop("bio", Strs("hi")),
           Prop("lore", Strs("l")),
           Prop("messageExamples", JArr(<<JArr(<<Turn>>)>>)),
           Prop("postExamples", Strs("p")),
           Prop("adjectives", Strs("kind")),
           Prop("topics", Strs("t")),
           Prop("style", Style(Strs("x"), Strs("y"), Strs("z")))>>)

EditKeys ==
    <<"name", "clients", "modelProvider", "bio", "lore", "messageExamples",
      "postExamples", "adjectives", "topics", "style", "plugins", "settings",
      "system", "knowledge", "extra">>

EditsOf(key, values) == {[k |-> key, v |-> x] : x \in values}

EditChoices ==
    EditsOf("name", {Undefined, JNum(1), JStr("Eliza")})
    \cup EditsOf("clients", {Undefined, JArr(<< >>), JArr(<<JNum(1)>>), JStr("discord"),
                             JArr(<<JStr("discord"), JStr("twitter")>>)})
    \cup EditsOf("modelProvider", {Undefined, JNull})
    \cup EditsOf("bio", {Undefined, JArr(<< >>), JArr(<<JStr("hi"), JNum(1)>>)})
    \cup EditsOf("lore", {Undefined, JArr(<< >>)})
    \cup EditsOf("messageExamples",
                 {Undefined, JArr(<< >>), JArr(<<JArr(<< >>)>>),
                  JArr(<<JArr(<<Turn>>), JArr(<< >>)>>),
                  JArr(<<JArr(<<TurnWithAction>>)>>),
                  JArr(<<JArr(<<TurnWithUnknownKey>>)>>),
                  JArr(<<JArr(<<TurnWithUnknownContentKey>>)>>),
                  JArr(<<JArr(<<TurnWithoutContent>>)>>),
                  JArr(<<JArr(<<Turn, TurnIllTyped>>)>>)})
    \cup EditsOf("postExamples", {Undefined, JArr(<< >>)})
    \cup EditsOf("adjectives", {Undefined, JArr(<< >>)})
    \cup EditsOf("topics", {Undefined, JArr(<< >>)})
    \cup EditsOf("style",
                 {Undefined, JObj(<< >>), JStr("plain"),
                  Style(JArr(<< >>), Strs("y"), Strs("z")),
                  Style(Strs("x"), JArr(<< >>), Strs("z")),
                  Style(Strs("x"), Strs("y"), JArr(<< >>)),
                  Style(Undefined, Strs("y"), Strs("z")),
                  Style(Strs("x"), Undefined, Strs("z")),
                  Style(Strs("x"), Strs("y"), Undefined),
                  JObj(<<Prop("tone", JStr("dry")), Prop("all", Strs("x")),
                         Prop("chat", Strs("y")), Prop("post", Strs("z"))>>)})
    \cup EditsOf("plugins", {Strs("p"), JArr(<< >>), JArr(<<JNum(1)>>)})
    \cup EditsOf("settings",
                 {JObj(<< >>),
                  JObj(<<Prop("secrets", JObj(<<Prop("KEY", JStr("v"))>>))>>),
                  JObj(<<Prop("secrets", JObj(<<Prop("KEY", JNum(1)), Prop("ALT", JNull)>>))>>),
                  JObj(<<Prop("voice", JObj(<<Prop("model", JStr("m"))>>))>>),
                  JObj(<<Prop("voice", JObj(<< >>))>>),
                  JObj(<<Prop("model", JStr("gpt")),
                         Prop("voice", JObj(<<Prop("model", JStr("m"))>>))>>),
                  JObj(<<Prop("voice", JObj(<<Prop("model", JStr("m")),
                                              Prop("speed", JNum(1))>>))>>)})
    \cup EditsOf("system", {JStr("sys"), JNum(1)})
    \cup EditsOf("knowledge", {Strs("k"), JArr(<<JNull>>)})
    \cup EditsOf("extra", {JStr("x")})

\* the sets of at most n edits, no two of the same key
RECURSIVE EditSets(_)
EditSets(n) ==
    IF n = 0 THEN {{}}
    ELSE LET smaller == EditSets(n - 1)
         IN smaller \cup
            UNION {{E \cup {e} : e \in {c \in EditChoices : \A x \in E : x.k # c.k}} :
                      E \in smaller}

\* the document with the property set to value (removed when value is Undefined,
\* appended when the document does not have it)
SetProp(doc, key, value) ==
    IF value = Undefined
    THEN JObj(SelectSeq(doc.v, LAMBDA p : p.k # key))
    ELSE IF HasKey(doc, key)
    THEN JObj([i \in 1..Len(doc.v) |-> IF doc.v[i].k = key THEN Prop(key, value) ELSE doc.v[i]])
    ELSE JObj(Append(doc.v, Prop(key, value)))

RECURSIVE ApplyEdits(_, _, _)
ApplyEdits(doc, edits, i) ==
    IF i > Len(EditKeys) THEN doc
    ELSE IF \E e \in edits : e.k = EditKeys[i]
    THEN ApplyEdits(SetProp(doc, EditKeys[i], (CHOOSE e \in edits : e.k = EditKeys[i]).v),
                    edits, i + 1)
    ELSE ApplyEdits(doc, edits, i + 1)

CharacterInputs ==
    {ApplyEdits(BaseCharacter, E, 1) : E \in EditSets(MaxEdits)}
    \cup {JNull, JStr("Bot"), JArr(<<BaseCharacter>>)}

(***************************************************************************)
(* Validator: state machine                                                *)
(***************************************************************************)
InitValidator ==
    /\ sampleJson \in CharacterInputs
    /\ IdleSchema
    /\ InitSample
    /\ IdleTree
    /\ InitUploadState

\* characterSchema.parse(json)
CharacterSchemaParse ==
    /\ parsed = NULL
    /\ parsed' = SchemaParse(sampleJson)
    /\ UNCHANGED <<formatted, sampleVars, treeVars, uploadVars>>

\* formatZodError(validationError) on the error the parse threw
FormatZodError ==
    /\ parsed # NULL
    /\ ~parsed.ok
    /\ formatted = NULL
    /\ formatted' = ErrorList(formatZodError(parsed.issues))
    /\ UNCHANGED <<parsed, sampleVars, treeVars, uploadVars>>

\* the mount effect of App (App.tsx): loadJsonData()
loadJsonData ==
    /\ effect = "scheduled"
    /\ effect' = "done"
    /\ jsonData' = sampleJson
    /\ LET validated == validateCharacterConfig(sampleJson)
       IN IF validated.ok
          THEN /\ validatedData' = validated.data
               /\ sampleErrors' = NULL
          ELSE /\ sampleErrors' = ErrorList(formattedErrors(validated.issues))
               /\ validatedData' = NULL
    /\ sampleIsLoading' = FALSE
    /\ UNCHANGED <<sampleJson, schemaVars, treeVars, uploadVars>>

NextValidator == CharacterSchemaParse \/ FormatZodError \/ loadJsonData

SpecValidator == InitValidator /\ [][NextValidator]_vars

(***************************************************************************)
(* JSON text.  A text is its sequence of tokens: punctuation [p], string   *)
(* literals [s], number literals [n] and bare words [w].                   *)
(***************************************************************************)
P(c) == [p |-> c]
S(x) == [s |-> x]
N(x) == [n |-> x]
W(x) == [w |-> x]

IsP(text, i, c) == i <= Len(text) /\ "p" \in DOMAIN text[i] /\ text[i].p = c

\* the index of the first occurrence of each key, in order: a repeated key
\* keeps its first position and takes the last value
LastProp(props, key) ==
    props[CHOOSE i \in 1..Len(props) :
             /\ props[i].k = key
             /\ \A j \in (i + 1)..Len(props) : props[j].k # key]

DedupeProps(props) ==
    LET first == SelectSeq([i \in 1..Len(props) |-> i],
                           LAMBDA i : \A j \in 1..(i - 1) : props[j].k # props[i].k)
    IN [n \in 1..Len(first) |-> LastProp(props, props[first[n]].k)]

ParseFailed == [ok |-> FALSE, value |-> Undefined, next |-> 0]
ParseOk(value, next) == [ok |-> TRUE, value |-> value, next |-> next]

\* the JSON grammar, by recursive descent from token i
RECURSIVE ParseValue(_, _), ParseElements(_, _, _), ParseMembers(_, _, _)
ParseValue(text, i) ==
    IF i > Len(text) THEN ParseFailed
    ELSE LET tok == text[i] IN
         IF "s" \in DOMAIN tok THEN ParseOk(JStr(tok.s), i + 1)
         ELSE IF "n" \in DOMAIN tok THEN ParseOk(JNum(tok.n), i + 1)
         ELSE IF "w" \in DOMAIN tok
         THEN IF tok.w = "null" THEN ParseOk(JNull, i + 1)
              ELSE IF tok.w = "true" THEN ParseOk(JBool(TRUE), i + 1)
              ELSE IF tok.w = "false" THEN ParseOk(JBool(FALSE), i + 1)
              ELSE ParseFailed
         ELSE IF tok.p = "[" THEN
              IF IsP(text, i + 1, "]") THEN ParseOk(JArr(<< >>), i + 2)
              ELSE ParseElements(text, i + 1, << >>)
         ELSE IF tok.p = "{" THEN
              IF IsP(text, i + 1, "}") THEN ParseOk(JObj(<< >>), i + 2)
              ELSE ParseMembers(text, i + 1, << >>)
         ELSE ParseFailed

ParseElements(text, i, items) ==
    LET item == ParseValue(text, i) IN
    IF ~item.ok THEN ParseFailed
    ELSE IF IsP(text, item.next, ",")
    THEN ParseElements(text, item.next + 1, Append(items, item.value))
    ELSE IF IsP(text, item.next, "]")
    THEN ParseOk(JArr(Append(items, item.value)), item.next + 1)
    ELSE ParseFailed

ParseMembers(text, i, props) ==
    IF ~(i <= Len(text) /\ "s" \in DOMAIN text[i] /\ IsP(text, i + 1, ":"))
    THEN ParseFailed
    ELSE LET member == ParseValue(text, i + 2) IN
         IF ~member.ok THEN ParseFailed
         ELSE IF IsP(text, member.next, ",")
         THEN ParseMembers(text, member.next + 1, Append(props, Prop(text[i].s, member.value)))
         ELSE IF IsP(text, member.next, "}")
         THEN ParseOk(JObj(DedupeProps(Append(props, Prop(text[i].s, member.value)))),
                      member.next + 1)
         ELSE ParseFailed

\* JSON.parse(text): the value, or a SyntaxError (ok = FALSE)
JSONParse(text) ==
    LET r == ParseValue(text, 1)
    IN IF r.ok /\ r.next = Len(text) + 1 THEN r ELSE ParseFailed

\* the text of a JSON document
RECURSIVE Stringify(_), StringifyAll(_, _)
Stringify(value) ==
    CASE value.t = "string" -> <<S(value.v)>>
      [] value.t = "number" -> <<N(value.v)>>
      [] value.t = "boolean" -> <<W(IF value.v THEN "true" ELSE "false")>>
      [] value.t = "null" -> <<W("null")>>
      [] value.t = "array" ->
           <<P("[")>> \o StringifyAll([i \in 1..Len(value.v) |-> Stringify(value.v[i])], 1)
           \o <<P("]")>>
      [] value.t = "object" ->
           <<P("{")>>
           \o StringifyAll([i \in 1..Len(value.v) |->
                               <<S(value.v[i].k), P(":")>> \o Stringify(value.v[i].v)], 1)
           \o <<P("}")>>

StringifyAll(texts, i) ==
    IF i > Len(texts) THEN << >>
    ELSE IF i = Len(texts) THEN texts[i]
    ELSE texts[i] \o <<P(",")>> \o StringifyAll(texts, i + 1)

(***************************************************************************)
(* App (lib/schema.ts): the file-upload validator                          *)
(***************************************************************************)
File(name, text) == [name |-> name, text |-> text]

AllButLast(text) == SubSeq(text, 1, Len(text) - 1)

\* the files the user can pick
UploadFiles ==
    {File("bot.json", Stringify(BaseCharacter)),
     File("eliza.json",
          Stringify(SetProp(SetProp(BaseCharacter, "name", JStr("Eliza")),
                            "settings", JObj(<<Prop("model", JStr("gpt"))>>)))),
     File("no-clients.json", Stringify(SetProp(BaseCharacter, "clients", JArr(<< >>)))),
     File("no-name.json",
          Stringify(SetProp(SetProp(BaseCharacter, "name", Undefined), "clients", Undefined))),
     File("list.json", Stringify(JArr(<<BaseCharacter>>))),
     File("broken.json", <<P("{"), W("not"), W("json")>>),
     File("cut.json", AllButLast(Stringify(BaseCharacter))),
     File("empty.json", << >>)}

\* an outer catch that reports the failure without a path
FileErrorWithoutPath == [path |-> "", message |-> "Invalid JSON format", code |-> "custom"]

\* the error the outer catch reports
FileError == [path |-> "file", message |-> "Invalid JSON format", code |-> "custom"]

\* a button that is disabled only while no file is selected
DisabledWithoutFile == file = NULL

\* disabled={!file || isLoading}
ValidateDisabled == file = NULL \/ isLoading

\* a validateFile that resets the loading flag only when the file was read
LoadingUnlessRejected(promise) == promise = "rejected"

\* finally { setIsLoading(false) }: the flag after an attempt, however it ended
LoadingAfterAttempt(promise) == FALSE

\* the try/catch of validateFile on the text of each file the user can pick:
\* what it leaves in character and errors
OutcomeOfText ==
    [f \in UploadFiles |->
        LET json == JSONParse(f.text) IN
        IF ~json.ok
        THEN [character |-> NULL, errors |-> ErrorList(<<FileError>>)]
        ELSE LET validated == SchemaParse(json.value) IN
             IF validated.ok
             THEN [character |-> validated.data, errors |-> NULL]
             ELSE [character |-> NULL,
                   errors |-> ErrorList(formatZodError(validated.issues))]]

\* an outer catch that reports the error without setCharacter(null)
OutcomeKeepingCharacter(attempt) ==
    IF attempt.promise = "rejected"
    THEN [character |-> character, errors |-> ErrorList(<<FileError>>)]
    ELSE OutcomeOfText[attempt.file]

\* the try/catch of validateFile once file.text() has settled; a rejected read
\* lands in the outer catch
AttemptOutcome(attempt) ==
    IF attempt.promise = "rejected"
    THEN [character |-> NULL, errors |-> ErrorList(<<FileError>>)]
    ELSE OutcomeOfText[attempt.file]

RemoveAt(seq, i) == SubSeq(seq, 1, i - 1) \o SubSeq(seq, i + 1, Len(seq))

InitUpload ==
    /\ InitUploadState
    /\ IdleTree
    /\ IdleSchema
    /\ sampleJson = JNull
    /\ InitSample

\* onChange of the file input; files[0] is undefined when the dialog is
\* cancelled
handleFileChange(selectedFile) ==
    /\ file' = selectedFile
    /\ errors' = NULL
    /\ character' = NULL
    /\ UNCHANGED <<isLoading, pending, treeVars, schemaVars, sampleVars>>

\* onClick of the button, up to `await file.text()`
validateFile ==
    /\ ~ValidateDisabled
    /\ file # NULL
    /\ isLoading' = TRUE
    /\ errors' = NULL
    /\ pending' = Append(pending, [file |-> file, promise |-> "pending"])
    /\ UNCHANGED <<file, character, treeVars, schemaVars, sampleVars>>

\* the host settles the promise of file.text()
FileTextSettles(i, how) ==
    /\ pending[i].promise = "pending"
    /\ pending' = [pending EXCEPT ![i].promise = how]
    /\ UNCHANGED <<file, character, errors, isLoading, treeVars, schemaVars, sampleVars>>

\* validateFile resumes after the await and runs to its end
validateFileResumes(i) ==
    /\ pending[i].promise # "pending"
    /\ character' = AttemptOutcome(pending[i]).character
    /\ errors' = AttemptOutcome(pending[i]).errors
    /\ isLoading' = LoadingAfterAttempt(pending[i].promise)
    /\ pending' = RemoveAt(pending, i)
    /\ UNCHANGED <<file, treeVars, schemaVars, sampleVars>>

SelectFile == \E selectedFile \in UploadFiles \cup {NULL} : handleFileChange(selectedFile)

Settle == \E i \in 1..Len(pending) : \E how \in {"fulfilled", "rejected"} : FileTextSettles(i, how)

Resume == \E i \in 1..Len(pending) : validateFileResumes(i)

NextUpload == SelectFile \/ validateFile \/ Settle \/ Resume

SpecUpload == InitUpload /\ [][NextUpload]_vars

\* the host settles every read, and the resumed call runs as a microtask
FairUpload == SpecUpload /\ WF_vars(Settle) /\ WF_vars(Resume)

(***************************************************************************)
(* Both Apps side by side: the file-upload validator driven by the user    *)
(* and the sample validation on mount; they share no state.                *)
(***************************************************************************)

\* the documents the bundled sample can be
SampleDocuments ==
    {BaseCharacter,
     SetProp(BaseCharacter, "clients", JArr(<< >>)),
     SetProp(SetProp(BaseCharacter, "name", Undefined), "clients", Undefined),
     JArr(<<BaseCharacter>>)}

InitApps ==
    /\ InitUploadState
    /\ sampleJson \in SampleDocuments
    /\ InitSample
    /\ IdleTree
    /\ IdleSchema

NextApps == NextUpload \/ loadJsonData

SpecApps == InitApps /\ [][NextApps]_vars

(***************************************************************************)
(* File-upload validator: properties                                       *)
(***************************************************************************)

\* whether the text of a file is syntactically valid JSON
TextIsJson == [f \in UploadFiles |-> JSONParse(f.text).ok]

\* a step in which the validateFile call suspended as pending[i] runs to its end
Finishes(i) == Len(pending') < Len(pending) /\ pending' = RemoveAt(pending, i)

\* C3: when the text read from the file is not valid JSON, the attempt leaves
\* character null and errors equal to the one entry (file, Invalid JSON format,
\* custom); when the text does parse, no entry with path "file" is produced.
C3_ParseFailureIsOneFileError ==
    [][ \A i \in 1..Len(pending) :
          (Finishes(i) /\ pending[i].promise = "fulfilled") =>
              IF TextIsJson[pending[i].file]
              THEN errors' = NULL
                   \/ \A n \in 1..Len(errors'.list) : errors'.list[n].path # "file"
              ELSE /\ character' = NULL
                   /\ errors' = ErrorList(<<[path |-> "file",
                                             message |-> "Invalid JSON format",
                                             code |-> "custom"]>>) ]_vars

\* an attempt on the selected file, whose text is not JSON, has finished
C3_Witness ==
    /\ file # NULL
    /\ ~TextIsJson[file]
    /\ ~isLoading
    /\ errors # NULL
    /\ errors.list[1].path = "file"

\* C7: at most one validateFile call is in flight; the loading flag is set
\* exactly while one is; the validate action is enabled only with a file
\* selected and the loading flag false, so no attempt starts before the one in
\* flight has finished.
C7_NoOverlappingValidations ==
    /\ Len(pending) <= 1
    /\ isLoading <=> pending # << >>
    /\ (ENABLED validateFile) => (file # NULL /\ ~isLoading)

\* an attempt is in flight while the user has selected another file
C7_Witness ==
    /\ Len(pending) = 1
    /\ isLoading
    /\ file # NULL
    /\ file # pending[1].file

\* C8: every started attempt eventually sets the loading flag back to false,
\* a file can be selected in every state, and with a file selected and no
\* attempt in flight a new attempt can be started.
C8_AlwaysRetry ==
    /\ [](isLoading => <>(~isLoading))
    /\ [](ENABLED SelectFile)
    /\ []((~isLoading /\ file # NULL) => ENABLED validateFile)

\* a new attempt is in flight after an earlier one on the same file succeeded
C8_Witness ==
    /\ isLoading
    /\ character # NULL
    /\ pending # << >>

\* C10: while a file is selected, a validated character or an error list on
\* display was produced from that file: a result of the file selected before
\* is never shown next to the new one.
C10_ResultOfSelectedFile ==
    file # NULL =>
        /\ character # NULL =>
               character = AttemptOutcome([file |-> file, promise |-> "fulfilled"]).character
        /\ errors # NULL =>
               errors \in {AttemptOutcome([file |-> file, promise |-> how]).errors :
                              how \in {"fulfilled", "rejected"}}

\* C11: the validated object and the error list are never both non-null, and
\* when a validation attempt has completed exactly one of them is non-null: in
\* the file-upload App after each validateFile call has run to its end, in the
\* sample App once loadJsonData has run.
C11_SuccessXorErrors ==
    /\ [](~(character # NULL /\ errors # NULL))
    /\ [](~(validatedData # NULL /\ sampleErrors # NULL))
    /\ [](effect = "done" => (validatedData # NULL) # (sampleErrors # NULL))
    /\ [][ \A i \in 1..Len(pending) :
             Finishes(i) => (character' # NULL) # (errors' # NULL) ]_vars

\* the upload App shows a validated character after a completed attempt while
\* the sample App shows the errors of its sample
C11_Witness ==
    /\ pending = << >>
    /\ ~isLoading
    /\ character # NULL
    /\ errors = NULL
    /\ effect = "done"
    /\ sampleErrors # NULL
    /\ validatedData = NULL

(***************************************************************************)
(* Validator: properties.  The rules are restated here as a set of         *)
(* violations, each named by the dotted path of the value that breaks a    *)
(* rule; the parser above is checked against them.                         *)
(***************************************************************************)
Dot(prefix, name) == IF prefix = "" THEN name ELSE prefix \o "." \o name

\* "is a string"
StringRule(value, path) == IF value.t = "string" THEN {} ELSE {path}

\* "is a list of strings with at least minimum elements"
StringListRule(value, path, minimum) ==
    IF value.t # "array" THEN {path}
    ELSE IF Len(value.v) < minimum THEN {path}
    ELSE UNION {StringRule(value.v[i], Dot(path, ToString(i - 1))) : i \in 1..Len(value.v)}

\* "if present, ..."
IfPresent(value, violations) == IF value.t = "undefined" THEN {} ELSE violations

TurnRule(turn, path) ==
    IF turn.t # "object" THEN {path}
    ELSE LET content == Lookup(turn, "content")
         IN StringRule(Lookup(turn, "user"), Dot(path, "user"))
            \cup IF content.t # "object" THEN {Dot(path, "content")}
                 ELSE StringRule(Lookup(content, "text"), Dot(path, "content.text"))
                      \cup IfPresent(Lookup(content, "action"),
                                     StringRule(Lookup(content, "action"),
                                                Dot(path, "content.action")))

TranscriptRule(transcript, path) ==
    IF transcript.t # "array" THEN {path}
    ELSE IF Len(transcript.v) < 1 THEN {path}
    ELSE UNION {TurnRule(transcript.v[j], Dot(path, ToString(j - 1))) :
                   j \in 1..Len(transcript.v)}

MessageExamplesRule(value, path) ==
    IF value.t # "array" THEN {path}
    ELSE IF Len(value.v) < 1 THEN {path}
    ELSE UNION {TranscriptRule(value.v[i], Dot(path, ToString(i - 1))) :
                   i \in 1..Len(value.v)}

StyleRule(value, path) ==
    IF value.t # "object" THEN {path}
    ELSE UNION {StringListRule(Lookup(value, key), Dot(path, key), 1) :
                   key \in {"all", "chat", "post"}}

SettingsRule(value, path) ==
    IF value.t # "object" THEN {path}
    ELSE LET secrets == Lookup(value, "secrets")
             voice == Lookup(value, "voice")
         IN IfPresent(secrets,
                IF secrets.t # "object" THEN {Dot(path, "secrets")}
                ELSE UNION {StringRule(secrets.v[i].v,
                                       Dot(path, "secrets." \o secrets.v[i].k)) :
                               i \in 1..Len(secrets.v)})
            \cup IfPresent(voice,
                IF voice.t # "object" THEN {Dot(path, "voice")}
                ELSE StringRule(Lookup(voice, "model"), Dot(path, "voice.model")))

RequiredLists == {"clients", "bio", "lore", "postExamples", "adjectives", "topics"}

\* the violations of the rules by a JSON value
ViolatedRules(json) ==
    IF json.t # "object" THEN {""}
    ELSE UNION {StringRule(Lookup(json, key), key) : key \in {"name", "modelProvider"}}
         \cup IfPresent(Lookup(json, "system"), StringRule(Lookup(json, "system"), "system"))
         \cup UNION {StringListRule(Lookup(json, key), key, 1) : key \in RequiredLists}
         \cup UNION {IfPresent(Lookup(json, key), StringListRule(Lookup(json, key), key, 0)) :
                        key \in {"plugins", "knowledge"}}
         \cup MessageExamplesRule(Lookup(json, "messageExamples"), "messageExamples")
         \cup StyleRule(Lookup(json, "style"), "style")
         \cup IfPresent(Lookup(json, "settings"), SettingsRule(Lookup(json, "settings"), "settings"))

Paths(shown) == {shown.list[i].path : i \in 1..Len(shown.list)}

OnePerRule(shown) ==
    /\ Len(shown.list) = Cardinality(ViolatedRules(sampleJson))
    /\ Paths(shown) = ViolatedRules(sampleJson)

\* C4: validation does not short-circuit and formatting drops or merges
\* nothing: the error list given to the display, by formatZodError and by the
\* grouping of App (App.tsx) alike, has exactly one entry per violated rule, at
\* the path of that violation.
C4_OneErrorPerViolatedRule ==
    /\ parsed # NULL => (parsed.ok <=> ViolatedRules(sampleJson) = {})
    /\ formatted # NULL =>
           /\ OnePerRule(formatted)
           /\ Len(formatted.list) = Len(parsed.issues)
    /\ effect = "done" =>
           IF ViolatedRules(sampleJson) = {}
           THEN sampleErrors = NULL /\ validatedData # NULL
           ELSE sampleErrors # NULL /\ OnePerRule(sampleErrors)

\* an input that breaks at least two rules has been parsed, formatted and shown
C4_Witness ==
    /\ Cardinality(ViolatedRules(sampleJson)) >= 2
    /\ formatted # NULL
    /\ effect = "done"

\* the required non-empty lists of a document, each with its dotted path
RequiredListSites(json) ==
    IF json.t # "object" THEN {}
    ELSE LET style == Lookup(json, "style")
             examples == Lookup(json, "messageExamples")
         IN {[path |-> key, value |-> Lookup(json, key)] :
                key \in RequiredLists \cup {"messageExamples"}}
            \cup (IF style.t # "object" THEN {}
                  ELSE {[path |-> "style." \o key, value |-> Lookup(style, key)] :
                           key \in {"all", "chat", "post"}})
            \cup (IF examples.t # "array" THEN {}
                  ELSE {[path |-> "messageExamples." \o ToString(i - 1), value |-> examples.v[i]] :
                           i \in 1..Len(examples.v)})

IsEmptyList(value) == value.t = "array" /\ value.v = << >>

\* C5: when a required list is absent or empty in an otherwise valid input, the
\* input is invalid and the errors hold an entry at exactly that field's path;
\* an empty list gives exactly one error, at that path, with code too_small.
C5_RequiredNonEmptyLists ==
    (parsed # NULL /\ (~parsed.ok => formatted # NULL)) =>
        \A site \in RequiredListSites(sampleJson) :
            (/\ site.value.t = "undefined" \/ IsEmptyList(site.value)
             /\ ViolatedRules(sampleJson) = {site.path})
            => /\ ~parsed.ok
               /\ \E i \in 1..Len(formatted.list) : formatted.list[i].path = site.path
               /\ IsEmptyList(site.value) =>
                      /\ Len(formatted.list) = 1
                      /\ formatted.list[1].path = site.path
                      /\ formatted.list[1].code = "too_small"

\* the errors of an input whose only defect is an empty inner transcript
C5_Witness ==
    /\ formatted # NULL
    /\ ViolatedRules(sampleJson) = {"messageExamples.1"}
    /\ \E site \in RequiredListSites(sampleJson) :
           site.path = "messageExamples.1" /\ IsEmptyList(site.value)

SchemaKeys ==
    {"name", "clients", "modelProvider", "settings", "bio", "lore", "messageExamples",
     "postExamples", "adjectives", "topics", "style", "plugins", "knowledge", "system"}

KeySet(value) == {value.v[i].k : i \in 1..Len(value.v)}

\* deep equality of JSON values: objects are equal when they have the same
\* keys with equal values, in whatever order
RECURSIVE DeepEqual(_, _)
DeepEqual(a, b) ==
    /\ a.t = b.t
    /\ CASE a.t \in {"string", "number", "boolean"} -> a.v = b.v
         [] a.t = "array" ->
              /\ Len(a.v) = Len(b.v)
              /\ \A i \in 1..Len(a.v) : DeepEqual(a.v[i], b.v[i])
         [] a.t = "object" ->
              /\ KeySet(a) = KeySet(b)
              /\ \A key \in KeySet(a) : DeepEqual(Get(a, key), Get(b, key))
         [] OTHER -> TRUE

\* C6 as stated: a value that satisfies all the rules, unknown keys included
\* wherever they are, validates, and every field of the returned object is
\* deep-equal to the same field of the input.
C6_ValidRoundTrip ==
    (parsed # NULL /\ ViolatedRules(sampleJson) = {}) =>
        /\ parsed.ok
        /\ \A key \in SchemaKeys :
               DeepEqual(Lookup(parsed.data, key), Lookup(sampleJson, key))

\* an object without the keys that are not among the given ones
Only(value, keys) ==
    IF value.t # "object" THEN value
    ELSE JObj(SelectSeq(value.v, LAMBDA p : p.k \in keys))

OverProp(value, key, changed) ==
    IF value.t = "object" /\ HasKey(value, key) THEN SetProp(value, key, changed) ELSE value

\* a field of a valid input without the unknown keys of its message turns,
\* their content objects, style and settings.voice
WithoutUnknownKeys(key, value) ==
    CASE key = "messageExamples" ->
           JArr([i \in 1..Len(value.v) |->
               JArr([j \in 1..Len(value.v[i].v) |->
                   LET turn == Only(value.v[i].v[j], {"user", "content"})
                   IN OverProp(turn, "content",
                               Only(Lookup(turn, "content"), {"text", "action"}))])])
      [] key = "style" -> Only(value, {"all", "chat", "post"})
      [] key = "settings" /\ value.t = "object" ->
           OverProp(value, "voice", Only(Lookup(value, "voice"), {"model"}))
      [] OTHER -> value

\* C6 amended: a value that satisfies all the rules validates, and every field
\* of the returned object is deep-equal to the same field of the input once the
\* unknown keys inside message turns, their content objects, style and
\* settings.voice are removed from it; so it is deep-equal to the input's field
\* when unknown keys occur only at the top level or directly inside settings.
C6_RoundTripUpToStrippedKeys ==
    (parsed # NULL /\ ViolatedRules(sampleJson) = {}) =>
        /\ parsed.ok
        /\ KeySet(parsed.data) = KeySet(sampleJson) \cap SchemaKeys
        /\ \A key \in SchemaKeys :
               /\ DeepEqual(Lookup(parsed.data, key),
                            WithoutUnknownKeys(key, Lookup(sampleJson, key)))
               /\ WithoutUnknownKeys(key, Lookup(sampleJson, key)) = Lookup(sampleJson, key)
                      => DeepEqual(Lookup(parsed.data, key), Lookup(sampleJson, key))

\* a valid input with unknown keys at the top level and directly inside
\* settings has been parsed
C6_Witness ==
    /\ parsed # NULL
    /\ parsed.ok
    /\ HasKey(sampleJson, "extra")
    /\ HasKey(sampleJson, "settings")
    /\ HasKey(Get(sampleJson, "settings"), "model")

(***************************************************************************)
(* Tree viewer: properties                                                 *)
(***************************************************************************)
IsScalar(value) == value.t \in {"string", "number", "boolean", "null"}

IsContainer(value) == value.t \in {"object", "array"}

ProperDescendant(q, p) == Len(q) > Len(p) /\ SubSeq(q, 1, Len(p)) = p

ChildPaths(p) == {Append(p, key) : key \in ChildKeys(ValueAt(data, p))}

\* C1: the root node starts expanded if and only if the initialExpanded flag
\* given to JsonViewer is true, and every non-root node starts collapsed when
\* it is created.
C1_RootHonoursFlag ==
    [][ /\ (view = "unmounted" /\ view' = "mounted")
            => nodes'[RootPath] = initialExpanded
        /\ \A p \in (DOMAIN nodes') \ (DOMAIN nodes) :
               p # RootPath => nodes'[p] = FALSE ]_vars

\* C2: a node whose value is a string, number, boolean or null has no
\* expand/collapse control, no child nodes and no enabled toggle, and the
\* render never enumerates the children of null.
C2_ScalarsNeverExpandable ==
    /\ view # "crashed"
    /\ \A p \in DOMAIN nodes :
           IsScalar(ValueAt(data, p)) =>
               /\ ~HasExpandControl(ValueAt(data, p))
               /\ ~CanToggle(p)
               /\ ~\E q \in DOMAIN nodes : ProperDescendant(q, p)

\* the mounted object/array nodes: the toggles C9 is about
ContainerNodes ==
    IF view = "mounted"
    THEN {p \in DOMAIN nodes : IsContainer(ValueAt(data, p))}
    ELSE {}

\* C9 as stated: a toggle flips only that node's flag and leaves the flag of
\* every other node alone, so toggling a node twice gives back the same visible
\* nodes with the same flags (a child expanded before its parent is closed and
\* reopened is still expanded).
C9_ChildStatePersists ==
    \A p \in ContainerNodes :
        LET once == ToggleResult(data, nodes, initialExpanded, p)
            twice == ToggleResult(data, once, initialExpanded, p)
        IN /\ once[p] = ~nodes[p]
           /\ \A q \in (DOMAIN nodes \cap DOMAIN once) \ {p} : once[q] = nodes[q]
           /\ twice = nodes

\* C9 amended: a toggle flips only that node's flag; every other node that
\* stays mounted keeps its flag; closing a node unmounts all its descendants
\* and drops their flags, opening it mounts exactly its direct children, all
\* collapsed; so toggling twice restores the node's flag and its visible direct
\* children, with every descendant of an open node reset to collapsed.
C9_ToggleLocal ==
    \A p \in ContainerNodes :
        LET once == ToggleResult(data, nodes, initialExpanded, p)
            twice == ToggleResult(data, once, initialExpanded, p)
            below == {q \in DOMAIN nodes : ProperDescendant(q, p)}
        IN /\ once[p] = ~nodes[p]
           /\ \A q \in (DOMAIN nodes \cap DOMAIN once) \ {p} : once[q] = nodes[q]
           /\ IF nodes[p]
              THEN /\ DOMAIN once = (DOMAIN nodes) \ below
                   /\ DOMAIN twice = ((DOMAIN nodes) \ below) \cup ChildPaths(p)
              ELSE /\ DOMAIN once = (DOMAIN nodes) \cup ChildPaths(p)
                   /\ DOMAIN twice = DOMAIN nodes
           /\ \A q \in (DOMAIN once) \ (DOMAIN nodes) : once[q] = FALSE
           /\ \A q \in DOMAIN twice :
                  twice[q] = IF ProperDescendant(q, p) THEN FALSE ELSE nodes[q]

\* an open object/array node with an open, non-empty object/array child
C9_Witness ==
    \E p \in ContainerNodes : \E c \in ContainerNodes :
        /\ c \in ChildPaths(p)
        /\ nodes[p] /\ nodes[c]
        /\ ChildPaths(c) # {}

====
